---- MODULE Spec2Model ----
(***************************************************************************)
(* jsonv typed extraction: extraction_error, extract_options and           *)
(* extraction_context (serialization/extract.hpp and its implementation).  *)
(*                                                                         *)
(* One top-level extraction is a synchronous call tree.  The model keeps   *)
(* the call stack explicitly: `stack` holds one frame per extractor that   *)
(* is running, `ctxs` holds the extraction_context objects that are alive  *)
(* (the root context and one copy per extract_sub in progress).  An        *)
(* exception unwinds the whole stack inside the action that throws it,     *)
(* passing through the catch clauses of every extract / extract_sub on     *)
(* the way.  Extractors, the AST and the registry are collaborators: an    *)
(* extractor's behaviour is drawn nondeterministically.                    *)
(***************************************************************************)
EXTENDS Integers, Sequences, FiniteSets, TLC

\* ------------------------------------------------------------------ bounds

\* Deepest nesting of running extractors in one top-level call.
MaxDepth == 3

\* Most calls into a context (problem, extract, extract_sub) that the caller
\* and the extractors make in one top-level call.
MaxOps == 4

\* Largest max_failures a context is configured with.
MaxFailures == 2

\* ------------------------------------------------------------------- paths

\* jsonv::path: a sequence of path elements, an object key or an array index.
Key(s) == [kind |-> "key", name |-> s, index |-> 0]

Idx(i) == [kind |-> "index", name |-> "", index |-> i]

\* jsonv::path(): the default-constructed, empty path.
EmptyPath == << >>

\* path::operator+=
PathAppend(p, q) == p \o q

\* -------------------------------------------------------------- the AST

\* The document extracted from, after TEST(extract_basics):
\*   { "i": 5, "a": [ 1, 2, 3 ], "o": { "i": 5, "b": [ 1, 2, 3 ] } }
\* A node is named by its position in the document.
NodeKind(n) ==
    CASE n = << >>                          -> "object"
      [] n = <<Key("i")>>                   -> "integer"
      [] n = <<Key("a")>>                   -> "array"
      [] n = <<Key("o")>>                   -> "object"
      [] n = <<Key("o"), Key("i")>>         -> "integer"
      [] n = <<Key("o"), Key("b")>>         -> "array"
      [] OTHER                              -> "integer"

NodeKeys(n) ==
    CASE n = << >>          -> {"i", "a", "o"}
      [] n = <<Key("o")>>   -> {"i", "b"}
      [] OTHER              -> {}

NodeSize(n) == IF NodeKind(n) = "array" THEN 3 ELSE 0

\* One step of value::at_path: does element e resolve in node n?
HasChild(n, e) ==
    \/ e.kind = "key"   /\ NodeKind(n) = "object" /\ e.name \in NodeKeys(n)
    \/ e.kind = "index" /\ NodeKind(n) = "array"  /\ e.index < NodeSize(n)

\* value::at_path resolves: every element of the sub-path resolves in turn.
RECURSIVE Resolves(_, _)
Resolves(n, sub) ==
    IF sub = << >> THEN TRUE
    ELSE HasChild(n, Head(sub)) /\ Resolves(Append(n, Head(sub)), Tail(sub))

\* -------------------------------------------------------------- exceptions

\* No exception in flight / a null std::exception_ptr.
NoExc == [kind |-> "none", what |-> "", problems |-> << >>]

\* An exception derived from std::exception, with its what().
StdExc(w) == [kind |-> "std::exception", what |-> w, problems |-> << >>]

\* An exception of a type not derived from std::exception.
OtherExc == [kind |-> "other", what |-> "", problems |-> << >>]

\* What a std::exception_ptr kept in a problem refers to.
CauseOf(e) == [kind |-> e.kind, what |-> e.what]

NoCause == CauseOf(NoExc)

\* current_exception_type_name() prefixed by "Exception with type ".
TypeNameMessage == "Exception with type <demangled>"

\* extraction_error::problem::problem(path, message, cause)
problem3(path, message, cause) ==
    [path    |-> path,
     message |-> IF message = "" THEN "Unknown problem" ELSE message,
     cause   |-> cause]

\* extraction_error::problem::problem(path, message)
problem2(path, message) == problem3(path, message, NoCause)

\* extraction_error::problem::problem(path, cause): the message is taken from
\* the rethrown cause.
problem_from_cause(path, e) ==
    problem3(path,
             IF e.kind = "other" THEN TypeNameMessage ELSE e.what,
             CauseOf(e))

\* make_extraction_error_errmsg: the header of the rendered message (the
\* per-problem lines render each problem's path and message after it).
make_extraction_error_errmsg(problems) ==
    IF Len(problems) = 0 THEN "Extraction error with unspecified problem"
    ELSE IF Len(problems) = 1 THEN "Extraction error"
    ELSE "n extraction errors:"

\* extraction_error::extraction_error(problem_list): the list is moved into
\* _problems as given.
extraction_error(problems) ==
    [kind     |-> "extraction_error",
     what     |-> make_extraction_error_errmsg(problems),
     problems |-> problems]

\* extraction_error::extraction_error(path, message, cause)
extraction_error3(path, message, cause) ==
    extraction_error(<<problem3(path, message, cause)>>)

\* extraction_error::path(): the first problem's path.
error_path(e) ==
    IF Len(e.problems) = 0 THEN EmptyPath ELSE e.problems[1].path

\* extraction_error::nested_ptr(): the first problem's cause.
error_nested_ptr(e) ==
    IF Len(e.problems) = 0 THEN NoCause ELSE e.problems[1].cause

\* ----------------------------------------------------------- extract_options

\* extract_options::_max_failures as default-constructed.
DefaultMaxFailures == 10

\* extract_options: failure mode and failure limit (the duplicate-key action
\* is consumed outside this component and is left out).
Options ==
    [failure_mode : {"fail_immediately", "collect_all"},
     max_failures : 1..MaxFailures]

\* extract_options::extract_options()
DefaultOptions ==
    [failure_mode |-> "fail_immediately", max_failures |-> DefaultMaxFailures]

\* The options contexts are constructed with: the defaults (the constructor
\* taking no options) or options the caller set.
OptionsChoices == Options \cup {DefaultOptions}

\* ------------------------------------------------------------ the registry

Types == {"int", "my_thing", "unassociated"}

\* formats::defaults(): the extractors of the primitive types.
Defaults == {"int"}

\* The registries the tests build: a formats object with extractors
\* registered on itself (own) and an ordered list of composed registries.
FormatsChoices ==
    { [own |-> {},           parts |-> <<Defaults>>],
      [own |-> {"my_thing"}, parts |-> <<Defaults>>],
      [own |-> {},           parts |-> <<Defaults, {"my_thing"}>>],
      [own |-> {},           parts |-> <<{"int", "my_thing"}, {"my_thing"}>>] }

\* The extractor registered for a type by registry reg (0: the formats object
\* itself, i: the i-th composed registry).
Extractor(type, reg) == [type |-> type, reg |-> reg]

NoExtractor == Extractor("", -1)

FirstPartWith(fmts, type) ==
    LET S == {i \in 1..Len(fmts.parts) : type \in fmts.parts[i]}
    IN  CHOOSE i \in S : \A j \in S : i <= j

\* get_extractor preferring the last composed registry that has the type.
get_extractor_last(fmts, type) ==
    IF type \in fmts.own THEN Extractor(type, 0)
    ELSE IF \E i \in 1..Len(fmts.parts) : type \in fmts.parts[i]
         THEN Extractor(type,
                        CHOOSE i \in 1..Len(fmts.parts) :
                            /\ type \in fmts.parts[i]
                            /\ \A j \in 1..Len(fmts.parts) :
                                   type \in fmts.parts[j] => j <= i)
         ELSE NoExtractor

\* formats::get_extractor: the formats object's own extractor, else that of
\* the first composed registry, in composition order, that has one.
get_extractor(fmts, type) ==
    IF type \in fmts.own THEN Extractor(type, 0)
    ELSE IF \E i \in 1..Len(fmts.parts) : type \in fmts.parts[i]
         THEN Extractor(type, FirstPartWith(fmts, type))
         ELSE NoExtractor

\* formats::extract up to the invocation of the extractor: resolution fails
\* with an exception naming the unresolved type.
formats_extract(fmts, type) ==
    LET e == get_extractor(fmts, type)
    IN  [ext    |-> e,
         thrown |-> IF e = NoExtractor THEN StdExc("no extractor for type")
                    ELSE NoExc]

\* ------------------------------------------------------ extraction_context

\* extraction_context(formats, options): empty path, no problems.
NewContext(options) ==
    [options |-> options, path |-> EmptyPath, problems |-> << >>]

\* extraction_context::path()
path(ctx) == EmptyPath

\* extraction_context::on_problem: enforce the failure mode on the problem
\* just appended.
on_problem(ctx) ==
    IF ctx.options.failure_mode = "fail_immediately"
    THEN extraction_error(<<ctx.problems[Len(ctx.problems)]>>)
    ELSE IF Len(ctx.problems) >= ctx.options.max_failures
         THEN extraction_error(ctx.problems)
         ELSE NoExc

\* problem() without the call to on_problem.
problem_unenforced(ctx, p, message) ==
    [ctx    |-> [ctx EXCEPT !.problems = Append(@, problem2(p, message))],
     thrown |-> NoExc, result |-> FALSE]

\* problem() inserting the new problem at the front of the list.
problem_prepended(ctx, p, message) ==
    LET c == [ctx EXCEPT !.problems = <<problem2(p, message)>> \o @]
    IN  [ctx |-> c, thrown |-> on_problem(c), result |-> FALSE]

\* extraction_context::problem(path, message): append, enforce, return false.
problem(ctx, p, message) ==
    LET c == [ctx EXCEPT !.problems = Append(@, problem2(p, message))]
    IN  [ctx |-> c, thrown |-> on_problem(c), result |-> FALSE]

\* The catch clauses of extraction_context::extract(type, from, into).
extract_catch(ctx, e) ==
    IF e.kind = "extraction_error" THEN e
    ELSE IF e.kind = "std::exception"
         THEN extraction_error3(path(ctx), e.what, CauseOf(e))
         ELSE extraction_error3(path(ctx), TypeNameMessage, CauseOf(e))

\* The copy and the path extension at the head of extract_sub.
extract_sub_context(ctx, subpath) ==
    [ctx EXCEPT !.path = PathAppend(@, subpath)]

\* extract_sub extending the path of the context it is called on, and
\* handing that context on, instead of a copy.
extract_sub_in_place(cs, subpath) ==
    LET sub == extract_sub_context(cs[Len(cs)], subpath)
    IN  Append([cs EXCEPT ![Len(cs)] = sub], sub)

\* The live contexts once extract_sub has derived its child: the context it
\* was called on stays as it is, the copy is the current one.
extract_sub_contexts(cs, subpath) ==
    Append(cs, extract_sub_context(cs[Len(cs)], subpath))

\* The catch clauses of extraction_context::extract_sub.
extract_sub_catch(sub, e) ==
    IF e.kind = "extraction_error" THEN e
    ELSE IF e.kind = "std::exception"
         THEN extraction_error3(path(sub), e.what, CauseOf(e))
         ELSE extraction_error3(path(sub), TypeNameMessage, CauseOf(e))

\* ------------------------------------------------------------------ state

VARIABLES
    formats,    \* the registry handle every context of the call tree shares
    ctxs,       \* the live contexts: ctxs[1] is the root, the last the current
    stack,      \* one frame per running extractor, innermost last
    status,     \* of the top-level call: idle, running, returned, raised, terminated
    result,     \* what a returned top-level call handed back
    error,      \* the exception a raised top-level call ended with
    ops,        \* the calls made into contexts in this top-level call
    reported,   \* history: the problems passed to problem(), in report order,
                \* each with the index in ctxs of the context it was reported on
    last,       \* history: the last operation performed in the call tree
    slots       \* history: the destination slot of every typed extract<T> /
                \* extract_sub<T> call of this top-level call, in call order

vars ==
    <<formats, ctxs, stack, status, result, error, ops, reported, last, slots>>

\* The context the running extractor was handed (the root for the caller).
Cur == ctxs[Len(ctxs)]

Top == stack[Len(stack)]

\* The node the running extractor extracts from (the document for the caller).
CurFrom == IF stack = << >> THEN << >> ELSE Top.from

\* A frame: the extractor running, its node, how it was entered, whether it
\* reported a problem itself, whether every value it has been handed so far
\* was constructed, and the index in slots of the destination it writes.
Frame(ext, from, via, slot) ==
    [ext |-> ext, from |-> from, via |-> via, failed |-> FALSE, valid |-> TRUE,
     slot |-> slot]

\* The aligned storage extract<T> / extract_sub<T> declares: how the call
\* was left and how often ptr->~T() ran on it.
NewSlot == [exit |-> "open", destroyed |-> 0]

\* The typed wrapper with the scope-exit guard declared ahead of the call
\* into the type-erased primitive.
typed_exit_guard_first(slot, how) ==
    IF slot.exit # "open" THEN slot
    ELSE [exit |-> how, destroyed |-> slot.destroyed + 1]

\* How extract<T> / extract_sub<T> leave: the scope-exit guard is declared
\* after the type-erased call, so it runs ptr->~T() when that call returned
\* and does not exist yet when that call raised.
typed_exit(slot, how) ==
    IF slot.exit # "open" THEN slot
    ELSE IF how = "returned"
         THEN [exit |-> "returned", destroyed |-> slot.destroyed + 1]
         ELSE [exit |-> how, destroyed |-> slot.destroyed]

\* The context frame k runs on: one context was copied per extract_sub.
CtxOf(stk, cs, k) ==
    cs[1 + Cardinality({j \in 1..k : stk[j].via = "extract_sub"})]

\* An exception leaving the extractor of frame k passes the catch clauses of
\* the extract that invoked it, those of extract_sub when it was entered
\* through one, and then leaves the extractor of frame k - 1, which does not
\* catch it.
RECURSIVE Unwind(_, _, _, _)
Unwind(stk, cs, k, e) ==
    IF k = 0 THEN e
    ELSE LET c  == CtxOf(stk, cs, k)
             e1 == extract_catch(c, e)
             e2 == IF stk[k].via = "extract_sub"
                   THEN extract_sub_catch(c, e1) ELSE e1
         IN  Unwind(stk, cs, k - 1, e2)

NoLast ==
    [op |-> "none", at |-> EmptyPath, sub |-> EmptyPath, type |-> "",
     ext |-> NoExtractor, invoked |-> FALSE, hard |-> FALSE,
     size |-> 0, held |-> << >>, root |-> FALSE, thrown |-> NoExc,
     returned |-> TRUE]

TypeOK ==
    /\ formats \in FormatsChoices
    /\ status \in {"idle", "running", "returned", "raised", "terminated"}
    /\ result \in {"none", "valid", "indeterminate"}
    /\ Len(ctxs) >= 1
    /\ Len(stack) <= MaxDepth
    /\ ops \in 0..MaxOps
    /\ error.kind \in {"none", "extraction_error"}

Init ==
    /\ formats \in FormatsChoices
    /\ \E o \in OptionsChoices : ctxs = <<NewContext(o)>>
    /\ stack = << >>
    /\ status = "idle"
    /\ result = "none"
    /\ error = NoExc
    /\ ops = 0
    /\ reported = << >>
    /\ last = NoLast
    /\ slots = << >>

\* The call ends with exception e raised out of the extractor of the
\* innermost frame (or straight to the caller when none runs); root is the
\* root context as the operation left it, sl the slots declared so far:
\* every typed wrapper still open is left by the exception.
Raise(e, root, l, sl) ==
    /\ status' = "raised"
    /\ error' = Unwind(stack, ctxs, Len(stack), e)
    /\ result' = "none"
    /\ stack' = << >>
    /\ ctxs' = <<root>>
    /\ last' = l
    /\ slots' = [i \in 1..Len(sl) |-> typed_exit(sl[i], "raised")]
    /\ UNCHANGED <<formats, ops>>

\* Whoever may call into the context now: the caller of an idle context, or
\* a running extractor with operations and depth left.
MayOperate ==
    /\ stack # << >>
    /\ status = "running"
    /\ ops < MaxOps

MayCall ==
    \/ stack = << >> /\ status = "idle"
    \/ MayOperate /\ Len(stack) < MaxDepth

\* extraction_context::extract<T>(from), on the current context.
Extract(type) ==
    /\ MayCall
    /\ LET r == formats_extract(formats, type)
           l == [NoLast EXCEPT !.op = "extract", !.at = Cur.path,
                               !.type = type, !.ext = r.ext,
                               !.held = Cur.problems]
       IN  IF r.thrown # NoExc
           THEN /\ Raise(extract_catch(Cur, r.thrown), ctxs[1],
                         [l EXCEPT !.hard = TRUE, !.thrown = r.thrown],
                         Append(slots, NewSlot))
                /\ UNCHANGED reported
           ELSE /\ stack' = Append(stack,
                                   Frame(r.ext, CurFrom, "extract",
                                         Len(slots) + 1))
                /\ slots' = Append(slots, NewSlot)
                /\ status' = "running"
                /\ last' = [l EXCEPT !.invoked = TRUE]
                /\ ops' = ops + 1
                /\ UNCHANGED <<formats, ctxs, result, error, reported>>

\* extraction_context::extract_sub<T>(from, subpath), on the current context.
ExtractSub(type, subpath) ==
    /\ MayCall
    /\ LET sub == extract_sub_context(Cur, subpath)
           r   == formats_extract(formats, type)
           l   == [NoLast EXCEPT !.op = "extract_sub", !.at = sub.path,
                                 !.sub = subpath, !.type = type,
                                 !.held = Cur.problems]
           x   == IF ~Resolves(CurFrom, subpath)
                  THEN StdExc("path does not resolve") ELSE r.thrown
           e   == IF ~Resolves(CurFrom, subpath)
                  THEN extract_sub_catch(sub, x)
                  ELSE extract_sub_catch(sub, extract_catch(sub, x))
       IN  IF x # NoExc
           THEN /\ Raise(e, ctxs[1], [l EXCEPT !.hard = TRUE, !.thrown = x],
                         Append(slots, NewSlot))
                /\ UNCHANGED reported
           ELSE /\ stack' = Append(stack,
                                   Frame(r.ext, PathAppend(CurFrom, subpath),
                                         "extract_sub", Len(slots) + 1))
                /\ slots' = Append(slots, NewSlot)
                /\ ctxs' = extract_sub_contexts(ctxs, subpath)
                /\ status' = "running"
                /\ last' = [l EXCEPT !.invoked = TRUE, !.ext = r.ext]
                /\ ops' = ops + 1
                /\ UNCHANGED <<formats, result, error, reported>>

\* The sub-paths callers and extractors ask for.
SubPaths == { <<Key("o")>>, <<Key("b")>>, <<Idx(2)>>, <<Key("a"), Idx(3)>> }

\* The messages extractors report.
Messages == {"bad value", ""}

\* The position an extractor names when it reports a problem: that of the
\* node it was handed, as in context.problem(reader.path(), ...).
ReportPaths == IF stack = << >> THEN {} ELSE {Top.from}

\* What an extractor may throw instead of reporting a problem.
Throwables ==
    IF stack = << >> THEN {}
    ELSE { StdExc("boom"), OtherExc,
           extraction_error(<< >>),
           extraction_error(<<problem2(Top.from, "custom")>>) }

\* The running extractor calls context.problem(p, message).
Problem(p, message) ==
    /\ MayOperate
    /\ LET r == problem(Cur, p, message)
           l == [NoLast EXCEPT !.op = "problem", !.at = Cur.path,
                               !.size = Len(r.ctx.problems),
                               !.held = Cur.problems,
                               !.root = (Len(ctxs) = 1),
                               !.thrown = r.thrown, !.returned = r.result]
       IN  /\ reported' = Append(reported, [problem |-> problem2(p, message),
                                             on      |-> Len(ctxs)])
           /\ IF r.thrown # NoExc
              THEN Raise(r.thrown, IF Len(ctxs) = 1 THEN r.ctx ELSE ctxs[1], l,
                         slots)
              ELSE /\ ctxs' = [ctxs EXCEPT ![Len(ctxs)] = r.ctx]
                   /\ stack' = [stack EXCEPT ![Len(stack)].failed = TRUE]
                   /\ last' = l
                   /\ ops' = ops + 1
                   /\ UNCHANGED <<formats, status, result, error, slots>>

\* The running extractor throws.
Throw(e) ==
    /\ stack # << >>
    /\ status = "running"
    /\ Raise(e, ctxs[1],
             [NoLast EXCEPT !.op = "throw", !.at = Cur.path, !.hard = TRUE,
                            !.held = Cur.problems, !.thrown = e],
             slots)
    /\ UNCHANGED reported

\* The running extractor returns: true when it reported no problem, false
\* otherwise.  extract(type, from, into) is void: the typed wrapper moves
\* the value out of the destination whatever the extractor returned.  A
\* destination that was not constructed is read uninitialized: the value is
\* indeterminate, or the program terminates (in the move or in ptr->~T()).
Return(outcome) ==
    /\ stack # << >>
    /\ status = "running"
    /\ LET f     == Top
           valid == f.valid /\ ~f.failed
           rest  == SubSeq(stack, 1, Len(stack) - 1)
           left  == IF f.via = "extract_sub"
                    THEN SubSeq(ctxs, 1, Len(ctxs) - 1) ELSE ctxs
           l     == [NoLast EXCEPT !.op = "return", !.at = Cur.path,
                                   !.ext = f.ext, !.returned = ~f.failed]
       IN  /\ outcome = "value" \/ ~valid
           /\ last' = l
           /\ IF outcome = "terminate"
              THEN /\ status' = "terminated"
                   /\ stack' = << >>
                   /\ ctxs' = <<ctxs[1]>>
                   /\ \E d \in {0, 1} :
                          slots' = [slots EXCEPT ![f.slot] =
                                        [exit |-> "aborted", destroyed |-> d]]
                   /\ UNCHANGED result
              ELSE /\ ctxs' = left
                   /\ slots' = [slots EXCEPT ![f.slot] =
                                     typed_exit(@, "returned")]
                   /\ IF rest = << >>
                      THEN /\ stack' = rest
                           /\ status' = "returned"
                           /\ result' = IF valid THEN "valid"
                                        ELSE "indeterminate"
                      ELSE /\ stack' = [rest EXCEPT ![Len(rest)].valid =
                                                        @ /\ valid]
                           /\ UNCHANGED <<status, result>>
           /\ UNCHANGED <<formats, error, ops, reported>>

\* The caller is done with the call and constructs a context for its next.
Construct(fmts, options) ==
    /\ status \in {"returned", "raised", "terminated"}
    /\ formats' = fmts
    /\ ctxs' = <<NewContext(options)>>
    /\ stack' = << >>
    /\ status' = "idle"
    /\ result' = "none"
    /\ error' = NoExc
    /\ ops' = 0
    /\ reported' = << >>
    /\ last' = NoLast
    /\ slots' = << >>

Next ==
    \/ \E t \in Types : Extract(t)
    \/ \E t \in Types, s \in SubPaths : ExtractSub(t, s)
    \/ \E p \in ReportPaths, m \in Messages : Problem(p, m)
    \/ \E e \in Throwables : Throw(e)
    \/ \E o \in {"value", "terminate"} : Return(o)
    \/ \E f \in FormatsChoices, o \in OptionsChoices : Construct(f, o)

Spec == Init /\ [][Next]_vars

\* ------------------------------------------------------------- properties

\* The options of the call tree (every context holds a copy of the root's).
Mode == ctxs[1].options.failure_mode

Limit == ctxs[1].options.max_failures

ProblemsOf(rs) == [i \in 1..Len(rs) |-> rs[i].problem]

OnRoot(r) == r.on = 1

\* The problems reported on the root context itself, in report order.
RootReports == ProblemsOf(SelectSeq(reported, OnRoot))

LastReport == reported[Len(reported)].problem

\* The failure came from a throw, an unregistered type or an unresolved
\* path, and not from an extraction_error an extractor built itself.
HardFailure == last.hard /\ last.thrown.kind # "extraction_error"

\* C1: under fail_immediately the first problem(...) of a top-level call
\* raises an extraction_error holding exactly that problem, the call is over
\* and nothing was invoked after the report.
C1_FailFast ==
    (Mode = "fail_immediately" /\ reported # << >>) =>
        /\ Len(reported) = 1
        /\ status = "raised"
        /\ stack = << >>
        /\ error = extraction_error(<<reported[1].problem>>)
        /\ last.op = "problem"

\* A problem reported by a nested extractor under fail_immediately ended
\* the top-level call.
C1_Witness ==
    /\ Mode = "fail_immediately"
    /\ last.op = "problem"
    /\ Len(last.at) >= 2
    /\ status = "raised"
    /\ Len(error.problems) = 1

C3_ValueOrError ==
    /\ status # "terminated"
    /\ status = "returned" => (result = "valid" /\ reported = << >>)
    /\ status = "raised" => error.kind = "extraction_error"

\* C4: an extraction_error holds at least one problem, however it was
\* constructed.
C4_NonEmpty ==
    error.kind = "extraction_error" => Len(error.problems) >= 1

\* C5: a failure at the innermost level of nested extract_sub calls is
\* attributed to the concatenation of their sub-paths, the path of the
\* context it occurred on.
C5_PathAttribution ==
    (status = "raised" /\
     (last.op = "problem" \/ (last.op = "throw" /\ HardFailure))) =>
        /\ error.problems # << >>
        /\ error.problems[Len(error.problems)].path = last.at

\* C6: extract(type, from, into) replaces an exception that is not an
\* extraction_error by an extraction_error with one problem at the context's
\* current path, with the exception's message and the exception as cause;
\* an extraction_error passes unchanged.
C6_Rewrap ==
    (status = "raised" /\ last.hard /\
     last.thrown.what # "path does not resolve") =>
        IF last.thrown.kind = "extraction_error"
        THEN error = last.thrown
        ELSE /\ Len(error.problems) = 1
             /\ error.problems[1].path = last.at
             /\ error.problems[1].message =
                    (IF last.thrown.kind = "other" THEN TypeNameMessage
                     ELSE IF last.thrown.what = "" THEN "Unknown problem"
                     ELSE last.thrown.what)
             /\ error.problems[1].cause = CauseOf(last.thrown)

\* C7: extracting a type no registry has an extractor for raises an
\* extraction_error whose path() is the path of the node: empty for
\* extract<T> on the root, the sub-path for extract_sub<T>.
C7_Unregistered ==
    (last.op \in {"extract", "extract_sub"} /\
     get_extractor(formats, last.type) = NoExtractor /\
     last.thrown.what # "path does not resolve") =>
        /\ status = "raised"
        /\ error.kind = "extraction_error"
        /\ error_path(error) = last.at

\* C8: extract_sub with a sub-path that does not resolve raises an
\* extraction_error with one problem at the child context's path, and no
\* extractor is invoked.
C8_UnresolvedPath ==
    (last.op = "extract_sub" /\ last.thrown.what = "path does not resolve") =>
        /\ status = "raised"
        /\ ~last.invoked
        /\ Len(error.problems) = 1
        /\ error_path(error) = last.at

\* C9: a hard failure is raised at once in both failure modes, whatever
\* number of problems the context holds, as an extraction_error with exactly
\* one problem: the hard failure, at the path active where it occurred.
C9_HardFailure ==
    HardFailure =>
        /\ status = "raised"
        /\ stack = << >>
        /\ error.problems =
               <<problem_from_cause(last.at, last.thrown)>>

\* C10: an extractor invoked through the composed registries is that of the
\* first registry, in composition order, that registers its type; a type any
\* registry registers is found.
C10_Precedence ==
    /\ \A k \in 1..Len(stack) :
           LET x == stack[k].ext
           IN  x.reg >= 1 =>
                   /\ x.type \in formats.parts[x.reg]
                   /\ \A j \in 1..(x.reg - 1) : x.type \notin formats.parts[j]
    /\ (last.op \in {"extract", "extract_sub"} /\
        last.thrown.what # "path does not resolve" /\
        \E i \in 1..Len(formats.parts) : last.type \in formats.parts[i]) =>
           /\ last.invoked
           /\ last.ext.type = last.type

\* my_thing is registered by both composed registries and the first one's
\* extractor runs.
C10_Witness ==
    /\ Len(formats.parts) = 2
    /\ "my_thing" \in formats.parts[1] \cap formats.parts[2]
    /\ stack # << >>
    /\ Top.ext = Extractor("my_thing", 1)

\* C11 as stated: every typed wrapper that was left, by return or by an
\* exception, ran the destructor of its destination exactly once.
C11_EveryExit ==
    \A i \in 1..Len(slots) :
        slots[i].exit \in {"returned", "raised"} => slots[i].destroyed = 1

\* C11 as amended: a typed wrapper whose type-erased call returned ran the
\* destructor of its destination exactly once; one left by an exception of
\* that call, or still waiting for it, ran it not at all.
C11_DestroyedOnReturn ==
    \A i \in 1..Len(slots) :
        /\ slots[i].exit = "returned" => slots[i].destroyed = 1
        /\ slots[i].exit \in {"raised", "open"} => slots[i].destroyed = 0

\* One wrapper of the call tree returned and a later one was left by an
\* exception.
C11_Witness ==
    /\ status = "raised"
    /\ \E i, j \in 1..Len(slots) :
           /\ slots[i].exit = "returned"
           /\ slots[j].exit = "raised"

\* C12: under collect_all the problems reported on any context of the call
\* tree count toward max_failures: the call goes on only while fewer than N
\* were reported, and the N-th report raises all N in report order.
C12_TreeWide ==
    (Mode = "collect_all") =>
        /\ status \in {"running", "returned", "terminated"} =>
               Len(reported) < Limit
        /\ (status = "raised" /\ last.op = "problem") =>
               error.problems = ProblemsOf(reported)

\* The index in ctxs of the context frame k runs on.
CtxIndex(stk, k) == 1 + Cardinality({j \in 1..k : stk[j].via = "extract_sub"})

\* C13: extract_sub leaves the context it is called on unchanged: the step
\* entering it, every step taken while it runs and the step that returns
\* from it or raises out of it leave that context's path, options and
\* problems as they were, and the child of every extract_sub is at the
\* caller's path extended by the sub-path, the position of its node.
C13_CallerUnchanged ==
    [][ /\ \A k \in 1..Len(stack) :
               (stack[k].via = "extract_sub" /\
                CtxIndex(stack, k) - 1 <= Len(ctxs')) =>
                   ctxs'[CtxIndex(stack, k) - 1] = ctxs[CtxIndex(stack, k) - 1]
        /\ (last'.op = "extract_sub" /\ Len(ctxs) <= Len(ctxs')) =>
               ctxs'[Len(ctxs)] = ctxs[Len(ctxs)]
        /\ \A k \in 1..Len(stack') :
               CtxOf(stack', ctxs', k).path = stack'[k].from
      ]_vars

\* An extract_sub whose extractor reported a problem has returned to an
\* extractor that goes on, and that extractor's context holds no problem.
C13_Witness ==
    /\ Mode = "collect_all"
    /\ status = "running"
    /\ last.op = "return"
    /\ reported # << >>
    /\ reported[Len(reported)].on > Len(ctxs)
    /\ Cur.problems = << >>
    /\ Cur.path # EmptyPath

====
